---- MODULE Spec2Model ----
(***************************************************************************)
(* Bracket-progression engine of tournament-rs (src/src/lib.rs).           *)
(*                                                                         *)
(* A Tournament holds tournament_type, players and matches.  start() runs  *)
(* one of three drivers to completion; play_match() records a match        *)
(* decided by the caller.  Every rng.gen_range(0..2) is a nondeterministic *)
(* choice of 0 or 1.  A driver is modelled one loop iteration per step, so *)
(* that the pools and the score table can be observed between rounds.      *)
(*                                                                         *)
(* A Player (id, name) is compared by both fields only; the model uses one *)
(* positive integer per distinct (id, name) value.                         *)
(***************************************************************************)
EXTENDS Integers, Sequences, FiniteSets

(* ------------------------------ bounds --------------------------------- *)

\* Session specification (Spec): rosters of at most MaxRoster entries,
\* duplicates allowed; a call may begin while the log is shorter than MaxLog.
MaxRoster == 3
MaxLog == 2

\* Single-run specification (RunSpec): one start() on a fresh tournament; the
\* rosters of distinct players have at most this many players per format.
MaxSingle == 8
MaxDouble == 5
MaxSwiss == 5

\* Termination specification (TermSpec): one start() on a fresh tournament of
\* at most MaxTerm distinct players, under every format.
MaxTerm == 4

\* Round-executor specification (RoundSpec): play_round applied once to any
\* sequence of at most MaxRound contestants out of MaxRound players.
MaxRound == 4

(* ------------------------------ data ----------------------------------- *)

\* Option::None for Option<Player>; players are 1, 2, ...
None == 0

SingleElimination == "SingleElimination"
DoubleElimination == "DoubleElimination"
Swiss == "Swiss"
TournamentType == {SingleElimination, DoubleElimination, Swiss}

Match(p1, p2, w) == [player1 |-> p1, player2 |-> p2, winner |-> w]

Range(s) == {s[i] : i \in 1..Len(s)}

Distinct(s) == \A i, j \in 1..Len(s) : s[i] = s[j] => i = j

\* All sequences over S of length at most n.
SeqsUpTo(S, n) == UNION {[1..k -> S] : k \in 0..n}

\* Rosters up to renaming of players: the k-th new player to appear is k.
Canonical(s) ==
    \A i \in 1..Len(s) :
        s[i] <= 1 + Cardinality({s[j] : j \in 1..(i - 1)})

SessionRosters == {s \in SeqsUpTo(1..MaxRoster, MaxRoster) : Canonical(s)}

DistinctRoster(n) == [i \in 1..n |-> i]

MaxFor(t) ==
    IF t = SingleElimination THEN MaxSingle
    ELSE IF t = DoubleElimination THEN MaxDouble
    ELSE MaxSwiss

\* Arguments a caller may pass to play_match in the session specification.
ManualPlayers == {1, 2}

(* --------------------------- pure helpers ------------------------------ *)

\* slice.chunks(2): number of complete pairs, and number of chunks.
NumPairs(ps) == Len(ps) \div 2
NumChunks(ps) == (Len(ps) + 1) \div 2

\* The outcomes of one round: a winner_index (0 or 1) for every pair.
Outcomes(k) == [1..k -> {0, 1}]

\* play_round: winners, losers and the matches recorded, for the given
\* winner_index of every complete chunk.
\* Variant: the odd player out is not advanced.
PlayRoundWinnersNoBye(ps, idx) ==
    [i \in 1..NumPairs(ps) |-> ps[2 * i - 1 + idx[i]]]

PlayRoundWinners(ps, idx) ==
    [i \in 1..NumChunks(ps) |->
        IF 2 * i <= Len(ps) THEN ps[2 * i - 1 + idx[i]] ELSE ps[2 * i - 1]]

\* Variant: the loser is taken at winner_index.
PlayRoundLosersWinnerIndex(ps, idx) ==
    [i \in 1..NumPairs(ps) |-> ps[2 * i - 1 + idx[i]]]

PlayRoundLosers(ps, idx) ==
    [i \in 1..NumPairs(ps) |-> ps[2 * i - 1 + (1 - idx[i])]]

\* Variant: the last pair of an even-length round is not recorded.
PlayRoundMatchesStrict(ps, idx) ==
    [i \in 1..((Len(ps) - 1) \div 2) |->
        Match(ps[2 * i - 1], ps[2 * i], ps[2 * i - 1 + idx[i]])]

\* Variant: player2 is recorded from chunk[0] as well.
PlayRoundMatchesSamePlayer(ps, idx) ==
    [i \in 1..NumPairs(ps) |->
        Match(ps[2 * i - 1], ps[2 * i - 1], ps[2 * i - 1 + idx[i]])]

PlayRoundMatches(ps, idx) ==
    [i \in 1..NumPairs(ps) |->
        Match(ps[2 * i - 1], ps[2 * i], ps[2 * i - 1 + idx[i]])]

\* Variant: the odd player out does not advance.
SingleNextRoundNoBye(ps, idx) ==
    [i \in 1..NumPairs(ps) |-> ps[2 * i - 1 + idx[i]]]

\* The body of the single-elimination while loop: next_round_players and the
\* matches pushed.
SingleNextRound(ps, idx) ==
    [i \in 1..NumChunks(ps) |->
        IF 2 * i <= Len(ps) THEN ps[2 * i - 1 + idx[i]] ELSE ps[2 * i - 1]]

\* Variant: the last pair of an even-length round is taken for a bye.
SingleRoundMatchesStrict(ps, idx) ==
    [i \in 1..((Len(ps) - 1) \div 2) |->
        Match(ps[2 * i - 1], ps[2 * i], ps[2 * i - 1 + idx[i]])]

SingleRoundMatches(ps, idx) ==
    [i \in 1..NumPairs(ps) |->
        Match(ps[2 * i - 1], ps[2 * i], ps[2 * i - 1 + idx[i]])]

\* Variant: the new matches are put in front of the log.
PushAllFront(log, ms) == ms \o log

\* self.matches.push(..): the log with the new matches at its end.
PushAll(log, ms) == log \o ms

\* simulate_match: the winner for a winner_index, and the match recorded.
SimulateWinner(p1, p2, i) == IF i = 0 THEN p1 ELSE p2

\* Variant: the match is recorded without its winner.
SimulateMatchPending(p1, p2, i) == Match(p1, p2, None)

SimulateMatch(p1, p2, i) == Match(p1, p2, SimulateWinner(p1, p2, i))

\* Variant: a single remaining entry is not returned.
FirstOffByOne(s) == IF Len(s) <= 1 THEN None ELSE s[1]

\* Vec::first().cloned()
First(s) == IF Len(s) = 0 THEN None ELSE s[1]

\* usize::next_power_of_two: the smallest power of two >= n (1 for n = 0).
RECURSIVE PowerOfTwoFrom(_, _)
PowerOfTwoFrom(p, n) == IF p >= n THEN p ELSE PowerOfTwoFrom(2 * p, n)

\* Variant: the smallest power of two strictly above n.
NextPowerOfTwoStrict(n) == PowerOfTwoFrom(1, n + 1)

NextPowerOfTwo(n) == PowerOfTwoFrom(1, n)

\* usize::trailing_zeros of a non-zero value.
RECURSIVE TrailingZeros(_)
TrailingZeros(x) == IF x % 2 = 1 THEN 0 ELSE 1 + TrailingZeros(x \div 2)

SwissRounds(ps) == TrailingZeros(NextPowerOfTwo(Len(ps)))

\* The iteration orders a HashMap with key set K can have.
IterOrders(K) ==
    {s \in [1..Cardinality(K) -> K] : \A k \in K : \E i \in DOMAIN s : s[i] = k}

\* sort_by_key(|(_, score)| -score): a stable sort of the iteration order.
\* The entry at position i goes to the position given by the number of
\* entries that sort before it.
\* Variant: the sort key is the score, not its negation.
SortRankAscending(order, sc, i) ==
    Cardinality({j \in 1..Len(order) :
        \/ sc[order[j]] < sc[order[i]]
        \/ (sc[order[j]] = sc[order[i]] /\ j < i)})

SortRank(order, sc, i) ==
    Cardinality({j \in 1..Len(order) :
        \/ -sc[order[j]] < -sc[order[i]]
        \/ (-sc[order[j]] = -sc[order[i]] /\ j < i)})

SortByScoreDesc(order, sc) ==
    [k \in 1..Len(order) |->
        order[CHOOSE i \in 1..Len(order) : SortRank(order, sc, i) = k - 1]]

\* pair_players_swiss: adjacent entries of the sorted order; a trailing
\* single entry is filtered out.
\* Variant: the first entry of the sorted order is the one left out.
PairPlayersSwissSkipFirst(order, sc) ==
    LET sorted == SortByScoreDesc(order, sc)
    IN  [i \in 1..((Len(sorted) - 1) \div 2) |-> <<sorted[2 * i], sorted[2 * i + 1]>>]

PairPlayersSwiss(order, sc) ==
    LET sorted == SortByScoreDesc(order, sc)
    IN  [i \in 1..NumPairs(sorted) |-> <<sorted[2 * i - 1], sorted[2 * i]>>]

\* The matches of one Swiss round and the score table after it.
SwissRoundMatches(pairs, idx) ==
    [i \in 1..Len(pairs) |-> SimulateMatch(pairs[i][1], pairs[i][2], idx[i])]

\* Variant: both players of a match get the point.
SwissRoundScoresBoth(pairs, idx, sc) ==
    [p \in DOMAIN sc |->
        sc[p] + Cardinality({i \in 1..Len(pairs) : p \in {pairs[i][1], pairs[i][2]}})]

SwissRoundScores(pairs, idx, sc) ==
    [p \in DOMAIN sc |->
        sc[p] + Cardinality({i \in 1..Len(pairs) :
                    SimulateWinner(pairs[i][1], pairs[i][2], idx[i]) = p})]

\* Variant: min_by_key, the first entry with the minimum key.
MaxByScoreMin(order, sc) ==
    IF Len(order) = 0 THEN None
    ELSE order[CHOOSE i \in 1..Len(order) :
                /\ \A j \in 1..Len(order) : sc[order[j]] >= sc[order[i]]
                /\ \A j \in 1..(i - 1) : sc[order[j]] > sc[order[i]]]

\* Iterator::max_by_key over the map's entries in iteration order: the last
\* entry with the maximum key; None for an empty map.
MaxByScore(order, sc) ==
    IF Len(order) = 0 THEN None
    ELSE order[CHOOSE i \in 1..Len(order) :
                /\ \A j \in 1..Len(order) : sc[order[j]] <= sc[order[i]]
                /\ \A j \in (i + 1)..Len(order) : sc[order[j]] < sc[order[i]]]

(* ------------------------------ state ---------------------------------- *)

VARIABLES
    tournament_type,  \* Tournament.tournament_type
    players,          \* Tournament.players
    matches,          \* Tournament.matches
    pc,               \* where the caller or the running driver stands
    result,           \* the value the last start() returned
    round_players,    \* start_single_elimination
    winners_bracket,  \* start_double_elimination
    losers_bracket,
    final_winner,
    rounds,           \* start_swiss
    round,
    scores,
    iter_order,       \* iteration order of the scores HashMap
    log_base,         \* history: matches.len() when start() was entered
    entered,          \* history: times each player was put in losers_bracket
    dropped,          \* history: players that lost a losers-bracket round
    caller_ok         \* history: every play_match winner was a contestant

tournament == <<tournament_type, players, matches>>
single == <<round_players>>
double == <<winners_bracket, losers_bracket, final_winner>>
swiss == <<rounds, round, scores, iter_order>>
history == <<log_base, entered, dropped, caller_ok>>
vars == <<tournament, pc, result, single, double, swiss, history>>

NoScores == [p \in {} |-> 0]

\* Tournament::new, before any call.
NewTournament(t, ps) ==
    /\ tournament_type = t
    /\ players = ps
    /\ matches = <<>>
    /\ pc = "idle"
    /\ result = None
    /\ round_players = <<>>
    /\ winners_bracket = <<>>
    /\ losers_bracket = <<>>
    /\ final_winner = None
    /\ rounds = 0
    /\ round = 0
    /\ scores = NoScores
    /\ iter_order = <<>>
    /\ log_base = 0
    /\ entered = [p \in Range(ps) |-> 0]
    /\ dropped = {}
    /\ caller_ok = TRUE

Init ==
    \E t \in TournamentType, ps \in SessionRosters : NewTournament(t, ps)

RunRosters(t) == {DistinctRoster(n) : n \in 0..MaxFor(t)} \cup SessionRosters

RunInit ==
    \E t \in TournamentType : \E ps \in RunRosters(t) : NewTournament(t, ps)

(* ----------------------------- start() --------------------------------- *)

\* start(): dispatch on tournament_type and set up the driver's locals.
EnterStart ==
    /\ result' = None
    /\ log_base' = Len(matches)
    /\ entered' = [p \in Range(players) |-> 0]
    /\ dropped' = {}
    /\ round_players' = IF tournament_type = SingleElimination THEN players ELSE <<>>
    /\ winners_bracket' = IF tournament_type = DoubleElimination THEN players ELSE <<>>
    /\ losers_bracket' = <<>>
    /\ final_winner' = None
    /\ rounds' = IF tournament_type = Swiss THEN SwissRounds(players) ELSE 0
    /\ round' = 0
    /\ IF tournament_type = Swiss
       THEN /\ scores' = [p \in Range(players) |-> 0]
            /\ iter_order' \in IterOrders(Range(players))
       ELSE /\ scores' = NoScores
            /\ iter_order' = <<>>
    /\ pc' = IF tournament_type = SingleElimination THEN "single"
             ELSE IF tournament_type = DoubleElimination THEN "double"
             ELSE "swiss"
    /\ UNCHANGED <<tournament, caller_ok>>

Start ==
    /\ pc \in {"idle", "done"}
    /\ Len(matches) < MaxLog
    /\ EnterStart

RunStart ==
    /\ pc = "idle"
    /\ EnterStart

\* One iteration of the single-elimination while loop.
SingleRound ==
    /\ pc = "single"
    /\ Len(round_players) > 1
    /\ \E idx \in Outcomes(NumPairs(round_players)) :
        /\ matches' = PushAll(matches, SingleRoundMatches(round_players, idx))
        /\ round_players' = SingleNextRound(round_players, idx)
    /\ UNCHANGED <<tournament_type, players, pc, result, double, swiss, history>>

SingleReturn ==
    /\ pc = "single"
    /\ ~(Len(round_players) > 1)
    /\ result' = First(round_players)
    /\ pc' = "done"
    /\ UNCHANGED <<tournament, single, double, swiss, history>>

(* ------------------------- double elimination -------------------------- *)

\* Variant: the loop runs only while both brackets hold more than one player.
DoubleLoopCondBoth == Len(winners_bracket) > 1 /\ Len(losers_bracket) > 1

\* Variant: the loop also runs on a single remaining winners-bracket player.
DoubleLoopCondInclusive == Len(winners_bracket) >= 1 \/ Len(losers_bracket) > 1

DoubleLoopCond == Len(winners_bracket) > 1 \/ Len(losers_bracket) > 1

\* Number of positions of s holding p.
Occurrences(s, p) == Cardinality({i \in 1..Len(s) : s[i] = p})

\* Loop body, first part: the winners-bracket round; its losers are appended
\* to the losers bracket.
DoubleWinnersRound ==
    /\ pc = "double"
    /\ DoubleLoopCond
    /\ \E idx \in Outcomes(NumPairs(winners_bracket)) :
        LET lost == PlayRoundLosers(winners_bracket, idx)
        IN  /\ matches' = PushAll(matches, PlayRoundMatches(winners_bracket, idx))
            /\ winners_bracket' = PlayRoundWinners(winners_bracket, idx)
            /\ losers_bracket' = losers_bracket \o lost
            /\ entered' = [p \in DOMAIN entered |-> entered[p] + Occurrences(lost, p)]
    /\ pc' = "double_losers"
    /\ UNCHANGED <<tournament_type, players, result, single, final_winner, swiss,
                   log_base, dropped, caller_ok>>

\* Loop body, second part: the losers-bracket round, skipped when the losers
\* bracket is empty; its losers are not kept anywhere.
DoubleLosersRound ==
    /\ pc = "double_losers"
    /\ IF Len(losers_bracket) > 0
       THEN \E idx \in Outcomes(NumPairs(losers_bracket)) :
            /\ matches' = PushAll(matches, PlayRoundMatches(losers_bracket, idx))
            /\ losers_bracket' = PlayRoundWinners(losers_bracket, idx)
            /\ dropped' = dropped \cup Range(PlayRoundLosers(losers_bracket, idx))
       ELSE UNCHANGED <<matches, losers_bracket, dropped>>
    /\ pc' = "double_final"
    /\ UNCHANGED <<tournament_type, players, result, single, winners_bracket,
                   final_winner, swiss, log_base, entered, caller_ok>>

\* The matches of the grand final for the two winner_index draws, and its
\* winner: a second match is played when the first match's winner equals the
\* losers-bracket finalist.
GrandFinalFirst(w, l, i1) == SimulateWinner(w, l, i1)

\* Variant: the second grand-final match is not recorded.
GrandFinalMatchesFirstOnly(w, l, i1, i2) == <<SimulateMatch(w, l, i1)>>

\* Variant: the grand final is recorded with the losers-bracket finalist first.
GrandFinalMatchesLosersFirst(w, l, i1, i2) ==
    IF GrandFinalFirst(w, l, i1) = l
    THEN <<Match(l, w, l), Match(l, w, SimulateWinner(w, l, i2))>>
    ELSE <<Match(l, w, w)>>

GrandFinalMatches(w, l, i1, i2) ==
    IF GrandFinalFirst(w, l, i1) = l
    THEN <<SimulateMatch(w, l, i1), SimulateMatch(w, l, i2)>>
    ELSE <<SimulateMatch(w, l, i1)>>

\* Variant: the result of the second match is not used.
GrandFinalWinnerNoReset(w, l, i1, i2) == GrandFinalFirst(w, l, i1)

GrandFinalWinner(w, l, i1, i2) ==
    IF GrandFinalFirst(w, l, i1) = l
    THEN SimulateWinner(w, l, i2)
    ELSE GrandFinalFirst(w, l, i1)

\* Loop body, last part: with one player left in each bracket the grand final
\* is played and the loop is left by break; otherwise the loop goes on.
DoubleGrandFinal ==
    /\ pc = "double_final"
    /\ IF Len(winners_bracket) = 1 /\ Len(losers_bracket) = 1
       THEN \E i1, i2 \in {0, 1} :
            /\ matches' = PushAll(matches,
                   GrandFinalMatches(winners_bracket[1], losers_bracket[1], i1, i2))
            /\ final_winner' =
                   GrandFinalWinner(winners_bracket[1], losers_bracket[1], i1, i2)
            /\ pc' = "double_exit"
       ELSE /\ pc' = "double"
            /\ UNCHANGED <<matches, final_winner>>
    /\ UNCHANGED <<tournament_type, players, result, single, winners_bracket,
                   losers_bracket, swiss, history>>

\* Variant: no fallback to the winners bracket.
DoubleResultNoFallback == final_winner

\* final_winner.or_else(|| winners_bracket.first().cloned())
DoubleResult == IF final_winner # None THEN final_winner ELSE First(winners_bracket)

DoubleReturn ==
    /\ \/ pc = "double" /\ ~DoubleLoopCond
       \/ pc = "double_exit"
    /\ result' = DoubleResult
    /\ pc' = "done"
    /\ UNCHANGED <<tournament, single, double, swiss, history>>

(* ------------------------------- Swiss --------------------------------- *)

\* One iteration of the round loop: pair by the current standings, play every
\* pair, add one to each winner's score.
SwissRound ==
    /\ pc = "swiss"
    /\ round < rounds
    /\ LET pairs == PairPlayersSwiss(iter_order, scores)
       IN  \E idx \in Outcomes(Len(pairs)) :
            /\ matches' = PushAll(matches, SwissRoundMatches(pairs, idx))
            /\ scores' = SwissRoundScores(pairs, idx, scores)
    /\ round' = round + 1
    /\ UNCHANGED <<tournament_type, players, pc, result, single, double, rounds,
                   iter_order, history>>

SwissReturn ==
    /\ pc = "swiss"
    /\ ~(round < rounds)
    /\ result' = MaxByScore(iter_order, scores)
    /\ pc' = "done"
    /\ UNCHANGED <<tournament, single, double, swiss, history>>

(* ---------------------------- play_match ------------------------------- *)

\* play_match(player1, player2, winner): the match is pushed as given.
PlayMatch ==
    /\ pc \in {"idle", "done"}
    /\ Len(matches) < MaxLog
    /\ \E p1, p2, w \in ManualPlayers :
        /\ matches' = PushAll(matches, <<Match(p1, p2, w)>>)
        /\ caller_ok' = (caller_ok /\ w \in {p1, p2})
    /\ pc' = "idle"
    /\ UNCHANGED <<tournament_type, players, result, single, double, swiss,
                   log_base, entered, dropped>>

(* -------------------------- specifications ----------------------------- *)

Driver ==
    \/ SingleRound
    \/ SingleReturn
    \/ DoubleWinnersRound
    \/ DoubleLosersRound
    \/ DoubleGrandFinal
    \/ DoubleReturn
    \/ SwissRound
    \/ SwissReturn

\* A session on one tournament: any sequence of start() and play_match().
Next ==
    \/ Start
    \/ PlayMatch
    \/ Driver

Spec == Init /\ [][Next]_vars

\* One start() on a fresh tournament.
RunNext ==
    \/ RunStart
    \/ Driver

RunSpec == RunInit /\ [][RunNext]_vars

TermRosters == {DistinctRoster(n) : n \in 0..MaxTerm} \cup SessionRosters

TermInit ==
    \E t \in TournamentType : \E ps \in TermRosters : NewTournament(t, ps)

\* One start() on a fresh tournament, run to completion: a driver step that
\* can be taken is taken (single-threaded, no suspension points).
TermSpec == TermInit /\ [][RunNext]_vars /\ WF_vars(Driver)

\* play_round applied to the roster of a fresh tournament: the RoundResult is
\* kept in winners_bracket (winners) and losers_bracket (losers).
RoundInit ==
    \E ps \in SeqsUpTo(1..MaxRound, MaxRound) : NewTournament(DoubleElimination, ps)

PlayRoundCall ==
    /\ pc = "idle"
    /\ \E idx \in Outcomes(NumPairs(players)) :
        /\ matches' = PushAll(matches, PlayRoundMatches(players, idx))
        /\ winners_bracket' = PlayRoundWinners(players, idx)
        /\ losers_bracket' = PlayRoundLosers(players, idx)
    /\ pc' = "round_done"
    /\ UNCHANGED <<tournament_type, players, result, single, final_winner, swiss,
                   history>>

RoundNext == PlayRoundCall

RoundSpec == RoundInit /\ [][RoundNext]_vars

(* ------------------------------ claims --------------------------------- *)

IsPowerOfTwo(n) == \E k \in 0..n : n = 2 ^ k

\* The matches the current (or last) start() has pushed so far.
RunMatches == SubSeq(matches, log_base + 1, Len(matches))

WinnerIsContestant(m) == m.winner \in {m.player1, m.player2}

\* C1: on a fresh single-elimination tournament of n = 2^k distinct players,
\* when start() returns exactly one player survives and is the one returned,
\* and the log holds exactly n - 1 matches, each with its winner set.
C1_SingleEliminationPowerOfTwo ==
    (/\ pc = "done"
     /\ tournament_type = SingleElimination
     /\ log_base = 0
     /\ Distinct(players)
     /\ IsPowerOfTwo(Len(players)))
    => /\ Len(round_players) = 1
       /\ result = round_players[1]
       /\ result \in Range(players)
       /\ Len(matches) = Len(players) - 1
       /\ \A i \in 1..Len(matches) : matches[i].winner # None

C1_Witness ==
    /\ pc = "done"
    /\ tournament_type = SingleElimination
    /\ Len(players) = 8
    /\ Len(matches) = 7
    /\ result = round_players[1]

\* C2: under every format, start() returns none exactly when the roster is
\* empty, and otherwise returns a member of the roster.
C2_NoneIffEmptyRoster ==
    pc = "done"
    => /\ (result = None) <=> (Len(players) = 0)
       /\ Len(players) > 0 => result \in Range(players)

C2_Witness ==
    /\ pc = "done"
    /\ tournament_type = DoubleElimination
    /\ Len(players) > 0
    /\ final_winner = None
    /\ result \in Range(players)

\* C3: every match a driver pushes during start() has its winner set, and
\* the winner is that match's player1 or player2.
C3_DriverMatchesDecided ==
    pc # "idle"
    => \A i \in (log_base + 1)..Len(matches) :
        /\ matches[i].winner # None
        /\ WinnerIsContestant(matches[i])

C3_Witness ==
    /\ pc = "done"
    /\ tournament_type = DoubleElimination
    /\ Len(players) >= 3
    /\ final_winner # None
    /\ Len(RunMatches) >= 4

AllWinnersAreContestants ==
    \A i \in 1..Len(matches) :
        matches[i].winner # None => WinnerIsContestant(matches[i])

\* C4 (as stated): after any sequence of new, start and play_match calls with
\* arbitrary arguments, every match in the log whose winner is set has that
\* winner equal to one of its two contestants.
C4_Original == AllWinnersAreContestants

\* C4 (amended): the same holds after any sequence of calls in which every
\* play_match call passed a winner equal to its player1 or player2.
C4_WinnersAreContestantsUnderDiscipline == caller_ok => AllWinnersAreContestants

C4_Witness ==
    /\ caller_ok
    /\ pc = "done"
    /\ tournament_type = SingleElimination
    /\ log_base = 1
    /\ matches[1] = Match(2, 1, 1)
    /\ Len(matches) > log_base

\* ceil(log2(n)), with 0 for n <= 1.
CeilLog2(n) == CHOOSE r \in 0..n : 2 ^ r >= n /\ \A q \in 0..(r - 1) : 2 ^ q < n

\* C5: a Swiss start() over n distinct players plays ceil(log2(n)) rounds
\* (0 for n <= 1, 1 for n = 2, 3 for n = 5..8), and every round adds exactly
\* floor(n/2) matches, so the call adds rounds * floor(n/2) matches in all.
C5_SwissRoundsAndMatches ==
    (/\ tournament_type = Swiss
     /\ pc \in {"swiss", "done"}
     /\ Distinct(players))
    => LET n == Len(players)
       IN  /\ rounds = CeilLog2(n)
           /\ n <= 1 => rounds = 0
           /\ n = 2 => rounds = 1
           /\ n \in 5..8 => rounds = 3
           /\ round <= rounds
           /\ Len(RunMatches) = round * (n \div 2)
           /\ pc = "done" => round = rounds

C5_Witness ==
    /\ tournament_type = Swiss
    /\ pc = "done"
    /\ Len(players) = 5
    /\ round = 3
    /\ Len(matches) = 6

\* p lost a match that the current start() pushed.
LostARunMatch(p) ==
    \E i \in (log_base + 1)..Len(matches) :
        /\ p \in {matches[i].player1, matches[i].player2}
        /\ matches[i].winner # p

\* C6: in double elimination over distinct players nobody enters the losers
\* pool more than once; whoever is in it came from the winners pool by losing
\* a match and is no longer in the winners pool; whoever lost a losers-pool
\* round is in neither pool from then on.
C6_LosersPoolEnteredOnce ==
    (tournament_type = DoubleElimination /\ pc # "idle" /\ Distinct(players))
    => /\ \A p \in Range(players) : entered[p] <= 1
       /\ Distinct(losers_bracket)
       /\ \A p \in Range(losers_bracket) :
            /\ entered[p] = 1
            /\ LostARunMatch(p)
            /\ p \notin Range(winners_bracket)
       /\ \A p \in dropped :
            /\ entered[p] = 1
            /\ p \notin Range(winners_bracket) \cup Range(losers_bracket)

C6_Witness ==
    /\ tournament_type = DoubleElimination
    /\ pc = "double"
    /\ Len(players) = 5
    /\ Cardinality(dropped) = 2
    /\ Len(losers_bracket) = 1
    /\ Len(winners_bracket) = 2

\* C7: in the grand final of a double elimination over distinct players, the
\* first match is between the winners-pool finalist (player1) and the
\* losers-pool finalist (player2); if the winners-pool finalist wins it, no
\* further match is played and that finalist is the final winner; if the
\* losers-pool finalist wins it, exactly one more match between the same two
\* is played and its winner is the final winner; start() returns the final
\* winner.
C7_GrandFinalStep ==
    /\ (pc = "double_final" /\ pc' = "double_exit" /\ Distinct(players))
       => LET w == winners_bracket[1]
              l == losers_bracket[1]
              k == Len(matches)
          IN  /\ Len(matches') > k
              /\ matches'[k + 1].player1 = w
              /\ matches'[k + 1].player2 = l
              /\ IF matches'[k + 1].winner = w
                 THEN /\ Len(matches') = k + 1
                      /\ final_winner' = w
                 ELSE /\ matches'[k + 1].winner = l
                      /\ Len(matches') = k + 2
                      /\ matches'[k + 2].player1 = w
                      /\ matches'[k + 2].player2 = l
                      /\ matches'[k + 2].winner \in {w, l}
                      /\ final_winner' = matches'[k + 2].winner
    /\ (pc = "double_exit" /\ pc' = "done") => result' = final_winner

C7_GrandFinal == [][C7_GrandFinalStep]_vars

C7_Witness ==
    /\ pc = "double_exit"
    /\ Distinct(players)
    /\ Len(players) = 4
    /\ LET k == Len(matches)
           w == winners_bracket[1]
           l == losers_bracket[1]
       IN  /\ matches[k - 1] = Match(w, l, l)
           /\ matches[k] = Match(w, l, w)
           /\ final_winner = w

\* C8: for an empty roster start() returns none and pushes no match, under
\* every format; for a roster of one player, single elimination and Swiss
\* push no match and return that player.
C8_TrivialRosters ==
    pc = "done"
    => /\ Len(players) = 0 => (result = None /\ Len(matches) = log_base)
       /\ (Len(players) = 1 /\ tournament_type \in {SingleElimination, Swiss})
          => (result = players[1] /\ Len(matches) = log_base)

C8_Witness ==
    /\ pc = "done"
    /\ tournament_type = SingleElimination
    /\ Len(players) = 1
    /\ log_base = 1
    /\ Len(matches) = 1
    /\ result = players[1]

\* Matches won by p: in the whole log, and among those the current start()
\* pushed.
LogWins(p) == Cardinality({i \in 1..Len(matches) : matches[i].winner = p})

RunWins(p) ==
    Cardinality({i \in (log_base + 1)..Len(matches) : matches[i].winner = p})

SwissReturned ==
    /\ pc = "done"
    /\ tournament_type = Swiss
    /\ Len(players) > 0

\* C9 (as stated): no roster player has won strictly more logged matches
\* than the player a Swiss start() returned (stated for rosters of distinct
\* players, where it already fails).
C9_Original ==
    (SwissReturned /\ Distinct(players))
    => \A p \in Range(players) : LogWins(p) <= LogWins(result)

\* C9 (amended): a player's score is the number of matches it won among
\* those this start() call logged, and no roster player's score is strictly
\* greater than the returned player's.
C9_SwissWinnerHasTopScore ==
    SwissReturned
    => \A p \in Range(players) :
        /\ scores[p] = RunWins(p)
        /\ RunWins(p) <= RunWins(result)

C9_Witness ==
    /\ SwissReturned
    /\ log_base > 0
    /\ RunWins(result) > 0
    /\ \E p \in Range(players) : LogWins(p) > LogWins(result)

\* C10: every step leaves the previous log as a prefix of the new log and
\* leaves players and tournament_type as they were.
C10_Step ==
    /\ Len(matches') >= Len(matches)
    /\ SubSeq(matches', 1, Len(matches)) = matches
    /\ players' = players
    /\ tournament_type' = tournament_type

C10_LogAppendOnlyRosterFixed == [][C10_Step]_vars

C10_Witness ==
    /\ pc = "done"
    /\ tournament_type = SingleElimination
    /\ players = <<1, 2>>
    /\ log_base = 1
    /\ Len(matches) = 2
    /\ matches[1] # matches[2]

Running == pc \notin {"idle", "done"}

\* C11: under every format, for every roster and all match outcomes, a
\* start() that has been entered returns: the driver loop reaches its exit.
C11_StartTerminates == Running ~> (pc = "done")

C11_Witness ==
    /\ pc = "done"
    /\ tournament_type = DoubleElimination
    /\ Len(players) = 4
    /\ final_winner # None
    /\ Len(matches) >= 6

\* C12: play_round on k distinct contestants pairs positions (1,2), (3,4), ...
\* in input order and pushes one match per pair, floor(k/2) in all; winners
\* has ceil(k/2) entries and losers floor(k/2); the i-th winner and loser are
\* the two players of the i-th pair; winners and losers are disjoint and
\* together are the input; for odd k the last contestant is the last winner,
\* without a match; for k <= 1 winners is the input and losers is empty.
C12_PlayRound ==
    (pc = "round_done" /\ Distinct(players))
    => LET k == Len(players)
       IN  /\ Len(matches) = k \div 2
           /\ Len(winners_bracket) = (k + 1) \div 2
           /\ Len(losers_bracket) = k \div 2
           /\ \A i \in 1..(k \div 2) :
                /\ matches[i].player1 = players[2 * i - 1]
                /\ matches[i].player2 = players[2 * i]
                /\ matches[i].winner = winners_bracket[i]
                /\ {winners_bracket[i], losers_bracket[i]}
                       = {players[2 * i - 1], players[2 * i]}
           /\ Range(winners_bracket) \cap Range(losers_bracket) = {}
           /\ Range(winners_bracket) \cup Range(losers_bracket) = Range(players)
           /\ k % 2 = 1 => winners_bracket[(k + 1) \div 2] = players[k]
           /\ k <= 1 => (winners_bracket = players /\ losers_bracket = <<>>)

C12_Witness ==
    /\ pc = "round_done"
    /\ players = <<3, 1, 2>>
    /\ winners_bracket = <<1, 2>>
    /\ losers_bracket = <<3>>
    /\ Len(matches) = 1

\* Reading a double-elimination log back: the pools are rebuilt from the
\* roster and the logged winners alone.
Other(m) == IF m.winner = m.player1 THEN m.player2 ELSE m.player1

\* log[pos .. pos + floor(|pool|/2) - 1] are the matches of one round over
\* pool, pair by pair in pool order.
IsRoundOf(log, pos, pool) ==
    /\ pos + NumPairs(pool) - 1 <= Len(log)
    /\ \A i \in 1..NumPairs(pool) :
        /\ log[pos + i - 1].player1 = pool[2 * i - 1]
        /\ log[pos + i - 1].player2 = pool[2 * i]
        /\ WinnerIsContestant(log[pos + i - 1])

RoundWinnersFromLog(log, pos, pool) ==
    [i \in 1..NumChunks(pool) |->
        IF 2 * i <= Len(pool) THEN log[pos + i - 1].winner ELSE pool[2 * i - 1]]

RoundLosersFromLog(log, pos, pool) ==
    [i \in 1..NumPairs(pool) |-> Other(log[pos + i - 1])]

\* log[pos ..] is a grand final between w and l and ends the log.
IsGrandFinal(log, pos, w, l) ==
    /\ pos <= Len(log)
    /\ log[pos].player1 = w
    /\ log[pos].player2 = l
    /\ IF log[pos].winner = w
       THEN pos = Len(log)
       ELSE /\ log[pos].winner = l
            /\ pos + 1 = Len(log)
            /\ log[pos + 1].player1 = w
            /\ log[pos + 1].player2 = l
            /\ WinnerIsContestant(log[pos + 1])

\* log[pos ..] is: the winners round of w, then the losers round of l with the
\* losers of w added, cycle after cycle, then the grand final as the last
\* entries.
RECURSIVE IsDoubleLog(_, _, _, _)
IsDoubleLog(log, pos, w, l) ==
    IF ~(Len(w) > 1 \/ Len(l) > 1)
    THEN pos = Len(log) + 1
    ELSE /\ IsRoundOf(log, pos, w)
         /\ LET w2 == RoundWinnersFromLog(log, pos, w)
                l1 == l \o RoundLosersFromLog(log, pos, w)
                pos1 == pos + NumPairs(w)
            IN  /\ IsRoundOf(log, pos1, l1)
                /\ LET l2 == RoundWinnersFromLog(log, pos1, l1)
                       pos2 == pos1 + NumPairs(l1)
                   IN  IF Len(w2) = 1 /\ Len(l2) = 1
                       THEN IsGrandFinal(log, pos2, w2[1], l2[1])
                       ELSE IsDoubleLog(log, pos2, w2, l2)

\* C13: when a double elimination over distinct players has returned, the
\* matches it logged are, in order: per cycle the winners-pool round then the
\* losers-pool round, and last the grand-final match(es), each recorded with
\* the winners-pool finalist as player1 and the losers-pool finalist as
\* player2; the player returned is the winner of the last log entry (with
\* fewer than two players nothing is logged).
C13_DoubleLogOrder ==
    (pc = "done" /\ tournament_type = DoubleElimination /\ Distinct(players))
    => /\ IsDoubleLog(RunMatches, 1, players, <<>>)
       /\ Len(RunMatches) > 0 => result = matches[Len(matches)].winner

C13_Witness ==
    /\ pc = "done"
    /\ tournament_type = DoubleElimination
    /\ players = DistinctRoster(5)
    /\ Len(matches) = 9
    /\ matches[8].winner = losers_bracket[1]
    /\ result = matches[9].winner
    /\ result = winners_bracket[1]

\* The matches a step pushed.
Pushed == SubSeq(matches', Len(matches) + 1, Len(matches'))

\* The players of a sequence of matches, in pairing order.
Paired(ms) == [j \in 1..(2 * Len(ms)) |->
                  IF j % 2 = 1 THEN ms[(j + 1) \div 2].player1
                  ELSE ms[j \div 2].player2]

SwissRoundStep == pc = "swiss" /\ round' = round + 1

\* C14: in every Swiss round the players are paired in descending order of
\* their score before the round: along the pairing order scores never rise
\* (so player1's score is at least player2's) and whoever is left unpaired
\* has no more than any paired player; nobody is in two matches of the round;
\* a winner's score goes up by exactly 1 and every other score is unchanged.
C14_SwissRoundStep ==
    SwissRoundStep
    => LET ms == Pushed
           order == Paired(ms)
       IN  /\ \A i \in 1..Len(ms) :
                /\ scores[ms[i].player1] >= scores[ms[i].player2]
                /\ WinnerIsContestant(ms[i])
           /\ \A i, j \in 1..Len(order) :
                i < j => scores[order[i]] >= scores[order[j]]
           /\ \A p \in DOMAIN scores \ Range(order) :
                \A q \in Range(order) : scores[q] >= scores[p]
           /\ Distinct(order)
           /\ \A p \in DOMAIN scores :
                scores'[p] = IF \E i \in 1..Len(ms) : ms[i].winner = p
                             THEN scores[p] + 1
                             ELSE scores[p]

C14_SwissPairing == [][C14_SwissRoundStep]_vars

C14_Witness ==
    /\ pc = "swiss"
    /\ Len(players) = 5
    /\ Distinct(players)
    /\ round = 3
    /\ \E p, q \in Range(players) :
        /\ scores[p] = 3
        /\ scores[q] = 0
        /\ matches[5].player1 = p
        /\ matches[6].player2 = q

\* C15: in a Swiss tournament of an odd number n >= 3 of distinct players,
\* every round leaves exactly one player unpaired: the last entry of the
\* descending-score order, whose score is minimal; it is in no match of the
\* round and its score is unchanged by the round.
C15_SwissByeStep ==
    (SwissRoundStep /\ Distinct(players) /\ Len(players) >= 3 /\ Len(players) % 2 = 1)
    => LET ms == Pushed
           unpaired == DOMAIN scores \ Range(Paired(ms))
       IN  /\ Cardinality(unpaired) = 1
           /\ \A p \in unpaired :
                /\ p = SortByScoreDesc(iter_order, scores)[Len(players)]
                /\ \A q \in DOMAIN scores : scores[q] >= scores[p]
                /\ \A i \in 1..Len(ms) : p \notin {ms[i].player1, ms[i].player2, ms[i].winner}
                /\ scores'[p] = scores[p]

C15_SwissBye == [][C15_SwissByeStep]_vars

C15_Witness ==
    /\ pc = "swiss"
    /\ players = DistinctRoster(5)
    /\ round = 3
    /\ Len(matches) = 6
    /\ \E p \in Range(players) :
        /\ scores[p] = 0
        /\ \A i \in 1..Len(matches) : p \notin {matches[i].player1, matches[i].player2}

DoubleFresh ==
    /\ tournament_type = DoubleElimination
    /\ log_base = 0
    /\ Distinct(players)
    /\ Len(players) >= 2

\* C16: with n >= 2 distinct players the double-elimination loop is never
\* left by its condition: start() returns after a grand final, with
\* final_winner decided and returned; a run that returns with final_winner
\* undecided has a roster of 0 or 1 players.
C16_DoubleEndsInGrandFinal ==
    tournament_type = DoubleElimination
    => /\ (Distinct(players) /\ Len(players) >= 2)
          => /\ pc = "double" => DoubleLoopCond
             /\ pc = "done" => (final_winner # None /\ result = final_winner)
       /\ (pc = "done" /\ final_winner = None) => Len(players) <= 1

C16_Witness ==
    /\ pc = "done"
    /\ tournament_type = DoubleElimination
    /\ players = DistinctRoster(3)
    /\ final_winner # None
    /\ result = final_winner

\* The grand final of a finished run went to a second match.
BracketReset ==
    /\ Len(matches) >= 2
    /\ matches[Len(matches) - 1] =
           Match(winners_bracket[1], losers_bracket[1], losers_bracket[1])

\* C17: a fresh double elimination of n >= 2 distinct players logs exactly
\* 2n - 2 matches when the winners-pool finalist wins the first grand-final
\* match and 2n - 1 when the losers-pool finalist wins it; so at least n - 1,
\* each with its winner set.
C17_DoubleMatchCount ==
    (pc = "done" /\ DoubleFresh)
    => /\ Len(matches) = IF BracketReset THEN 2 * Len(players) - 1
                         ELSE 2 * Len(players) - 2
       /\ Len(matches) >= Len(players) - 1
       /\ \A i \in 1..Len(matches) : matches[i].winner # None

C17_Witness ==
    /\ pc = "done"
    /\ DoubleFresh
    /\ Len(players) = 5
    /\ ~BracketReset
    /\ Len(matches) = 8

\* The logged matches p lost, and the last logged match p played.
LossesOf(p) ==
    {i \in 1..Len(matches) :
        p \in {matches[i].player1, matches[i].player2} /\ matches[i].winner # p}

LastMatchOf(p) ==
    CHOOSE i \in 1..Len(matches) :
        /\ p \in {matches[i].player1, matches[i].player2}
        /\ \A j \in (i + 1)..Len(matches) :
            p \notin {matches[j].player1, matches[j].player2}

\* C18: after a fresh double elimination of n >= 2 distinct players the
\* returned player lost at most one logged match; every other player lost
\* exactly two, the second being the last match it played.
C18_DoubleLosses ==
    (pc = "done" /\ DoubleFresh)
    => /\ Cardinality(LossesOf(result)) <= 1
       /\ \A p \in Range(players) \ {result} :
            /\ Cardinality(LossesOf(p)) = 2
            /\ LastMatchOf(p) \in LossesOf(p)

C18_Witness ==
    /\ pc = "done"
    /\ DoubleFresh
    /\ Len(players) = 5
    /\ result = losers_bracket[1]
    /\ Cardinality(LossesOf(result)) = 1
    /\ Cardinality(LossesOf(winners_bracket[1])) = 2

\* C19: a fresh single elimination of n >= 1 distinct players, a power of two
\* or not, logs exactly n - 1 matches; every player but the returned one lost
\* exactly one logged match and the returned one lost none.
C19_SingleMatchCount ==
    (/\ pc = "done"
     /\ tournament_type = SingleElimination
     /\ log_base = 0
     /\ Distinct(players)
     /\ Len(players) >= 1)
    => /\ Len(matches) = Len(players) - 1
       /\ result \in Range(players)
       /\ LossesOf(result) = {}
       /\ \A p \in Range(players) \ {result} : Cardinality(LossesOf(p)) = 1

C19_Witness ==
    /\ pc = "done"
    /\ tournament_type = SingleElimination
    /\ players = DistinctRoster(7)
    /\ Len(matches) = 6
    /\ result = 7

\* C20: in a Swiss tournament of n = 2^k distinct players, k >= 1, every
\* round pairs only players of equal score; after the k rounds exactly one
\* player has score k, and it is the player start() returns.
C20_SwissPowerOfTwoStep ==
    (/\ tournament_type = Swiss
     /\ Distinct(players)
     /\ Len(players) >= 2
     /\ IsPowerOfTwo(Len(players)))
    => /\ SwissRoundStep
          => \A i \in 1..Len(Pushed) :
                scores[Pushed[i].player1] = scores[Pushed[i].player2]
       /\ pc' = "done"
          => /\ Len(players) = 2 ^ rounds'
             /\ round' = rounds'
             /\ Cardinality({p \in DOMAIN scores' : scores'[p] = rounds'}) = 1
             /\ scores'[result'] = rounds'

C20_SwissPowerOfTwo == [][C20_SwissPowerOfTwoStep]_vars

C20_Witness ==
    /\ pc = "done"
    /\ tournament_type = Swiss
    /\ players = DistinctRoster(4)
    /\ iter_order = <<2, 1, 4, 3>>
    /\ Len(matches) = 4
    /\ scores[result] = 2
    /\ result = 4

====
